---- MODULE Spec2Model ----
(***************************************************************************)
(* Rover3DScene of src/components/DesignSpecs.tsx: the effect that sets    *)
(* the simulation up, the frame callback animate() and the effect's        *)
(* cleanup, for one instance of the component; and the chat component     *)
(* AIAssistant of src/components/AIAssistant.tsx with the service          *)
(* sendMessageToRoverAI of src/services/geminiService.ts.                  *)
(*                                                                         *)
(* Fixed point.  Time is counted in units of 1/TimeScale second.  Lengths  *)
(* along the ground are counted in units of 1/(10*TimeScale) metre, so     *)
(* that 3.0 * dt is the exact integer 30 * dt.  Heights are in             *)
(* millimetres and angles in milliradians.                                 *)
(***************************************************************************)
EXTENDS Integers, FiniteSets, Sequences, TLC

VARIABLES
    mountRef,      \* mountRef.current is a DOM node (TRUE) or null (FALSE)
    effect,        \* "pending" | "skipped" (guard returned) | "set_up"
    loading,       \* React state `loading`
    missionPhase,  \* React state `missionPhase`, the published label
    resizeListener,\* handleResize is registered on window
    domAttached,   \* renderer.domElement is a child of the mount node
    disposeCalls,  \* number of renderer.dispose() calls
    cleanups,      \* number of times the cleanup function has been called
    thrown,        \* a call of the component has raised an exception
    rafLoops,      \* pending requestAnimationFrame(animate) registrations
    terrain,       \* the height field the scene is built on
    missionState,  \* closure variable missionState
    stateTimer,    \* closure variable stateTimer
    roverPos,      \* closure variable roverPos, [x, z]
    rootPos,       \* rover.root.position, [x, y, z]
    rootRot,       \* rover.root.rotation, [z (pitch), x (roll)]
    rockerL,       \* rover.rockerL.rotation.z
    rockerR,       \* rover.rockerR.rotation.z
    joints,        \* rotations of rover.arm and rover.tail
    time,          \* clock.elapsedTime, read as the local `time`
    rigTracked,    \* whether joints and time are followed (see Init)
    elapsed,       \* real time between the last two frames
    dt,            \* the local dt of the last run of animate()
    apiKey,        \* process.env.API_KEY is set
    chatSession,   \* the module variable chatSession is not null
    messages,      \* React state `messages` of AIAssistant
    input,         \* React state `input`, a sequence of characters
    isLoading,     \* React state `isLoading`
    calls          \* the calls of handleSend started so far

simVars  == <<missionState, stateTimer, roverPos, rootPos, rootRot, rockerL,
              rockerR, joints, time, elapsed, dt>>
lifeVars == <<mountRef, effect, loading, resizeListener, domAttached,
              disposeCalls, cleanups, thrown, rafLoops, terrain, rigTracked>>
chatVars == <<apiKey, chatSession, messages, input, isLoading, calls>>
vars     == <<lifeVars, missionPhase, simVars, chatVars>>

(***************************************************************************)
(* Bounds of the model.                                                    *)
(***************************************************************************)
TimeScale   == 2
MaxElapsed  == 3
MaxCleanups == 2
MaxSends    == 3

(***************************************************************************)
(* Constants of the program, in the units of the source.                   *)
(***************************************************************************)
StartX       == -20
DriveSpeed   == 3
UpperBound   == 60
LowerBound   == -60
DwellDriveOut == 6
DwellScan    == 3
DwellSample  == 4
DwellReturn  == 3
OrientDamping == 5
ClearanceMm  == 730
FloorMm      == -5000

Metre        == 10 * TimeScale
Second       == TimeScale
LongStall    == (DwellDriveOut + 1) * Second
ElapsedSet   == (0..MaxElapsed) \cup {LongStall}

Abs(n) == IF n < 0 THEN -n ELSE n

\* Math.min in place of Math.max
Max_Min(a, b) == IF a < b THEN a ELSE b

Max(a, b) == IF a > b THEN a ELSE b

(***************************************************************************)
(* Fixed-point Math.sin, Math.cos and Math.atan2.  Angles are in           *)
(* milliradians; sines and cosines are scaled by 1000.                     *)
(***************************************************************************)
PiMrad == 3142

\* 16 p / (5 pi^2 - 4 p) for p = a (pi - a), both sides of the quotient
\* divided by 100 to stay within 32 bits
SinHalfTurn(a) ==
    LET p == a * (PiMrad - a)
    IN  (16000 * (p \div 100)) \div ((5 * PiMrad * PiMrad - 4 * p) \div 100)

Sin(a) ==
    LET r == a % (2 * PiMrad)
    IN  IF r <= PiMrad THEN SinHalfTurn(r) ELSE -SinHalfTurn(r - PiMrad)

Cos(a) == Sin(a + (PiMrad \div 2))

AtanUnit(q) ==
    (q * (785 + (273 * (1000 - Abs(q))) \div 1000)) \div 1000

\* for dx >= 0, the only case animate() produces
Atan2(dy, dx) ==
    IF dx = 0
    THEN (IF dy > 0 THEN PiMrad \div 2
          ELSE IF dy < 0 THEN -(PiMrad \div 2) ELSE 0)
    ELSE LET q == (1000 * dy) \div dx
         IN  IF Abs(q) <= 1000 THEN AtanUnit(q)
             ELSE IF q > 0
                  THEN (PiMrad \div 2) - AtanUnit(1000000 \div q)
                  ELSE -(PiMrad \div 2) - AtanUnit(1000000 \div q)

(***************************************************************************)
(* getTerrainHeight(x, z), in millimetres, for x and z in length units.    *)
(* Rad(k, u) is k * u / 10 radians of the source, in milliradians.         *)
(* The field "flat" is the constant field of the specification's           *)
(* scenarios; "mars" is the field of the source.  "marsLeftRidge" and      *)
(* "marsRightRidge" are the field of the source with a ridge added on one  *)
(* side of the centre line only (z > 0, z < 0).                            *)
(***************************************************************************)
Rad(k, u) == (10 * k * u) \div TimeScale

MarsHeight(x, z) ==
    LET dunes  == (Sin(Rad(1, x)) * Cos(Rad(1, z)) * 2) \div 1000
        bumps  == Sin(Rad(3, x) + Rad(2, z)) \div 2
        rough  == Cos(Rad(5, x)) \div 5
        y0     == dunes + bumps + rough
        onRoad == Abs(z) < 4 * Metre
        y1     == IF onRoad
                  THEN (y0 * 6) \div 10 + (Sin(Rad(15, x)) * 15) \div 100
                                        + (Cos(Rad(35, x)) * 5) \div 100
                  ELSE y0
    IN  Max(FloorMm, y1)

Ridge(x) == 100 * ((x \div Metre) % 4)

getTerrainHeight(field, x, z) ==
    CASE field = "flat"           -> 0
      [] field = "mars"           -> MarsHeight(x, z)
      [] field = "marsLeftRidge"  ->
            MarsHeight(x, z) + (IF z > 0 THEN Ridge(x) ELSE 0)
      [] field = "marsRightRidge" ->
            MarsHeight(x, z) + (IF z < 0 THEN Ridge(x) ELSE 0)

(***************************************************************************)
(* THREE.MathUtils.lerp(x, y, t) = (1 - t) * x + t * y, for t given as the *)
(* number tNum of 1/TimeScale.                                             *)
(***************************************************************************)
\* a fixed increment per tick in place of the interpolation
Lerp_Step(x, y, tNum) == IF y > x THEN x + 1 ELSE IF y < x THEN x - 1 ELSE x

Lerp(x, y, tNum) == ((TimeScale - tNum) * x + tNum * y) \div TimeScale

(***************************************************************************)
(* The pieces of animate().                                                *)
(***************************************************************************)

\* clock.getDelta(): 0 on the call that starts the clock, afterwards the
\* real time since the previous call, unchanged.
GetDelta(running, e) == IF running THEN e ELSE 0

\* a fixed increment per tick in place of dt
TimerAdvance_PerTick(t, d) == t + 1

\* stateTimer += dt
TimerAdvance(t, d) == t + d

\* the position also advanced while scanning
IsMoving_Scan(ms) == ms \in {"DRIVE_OUT", "SCAN", "RETURN"}

IsMoving(ms) == ms \in {"DRIVE_OUT", "RETURN"}

\* roverPos.x += 3.0 * dt
Advance(x, d) == x + 10 * DriveSpeed * d

\* if (roverPos.x > 61): the comparison one metre late
Wraps_Late(x) == x > (UpperBound + 1) * Metre

\* if (roverPos.x > 60)
Wraps(x) == x > UpperBound * Metre

\* roverPos.x -= 120: the overshoot carried into the next lap
WrapTarget_Carry(x) == x - 2 * UpperBound * Metre

\* roverPos.x = -60
WrapTarget(x) == LowerBound * Metre

\* the dwell tested by each case of the switch
Dwell(ms) ==
    CASE ms = "DRIVE_OUT" -> DwellDriveOut * Second
      [] ms = "SCAN"      -> DwellScan * Second
      [] ms = "SAMPLE"    -> DwellSample * Second
      [] ms = "RETURN"    -> DwellReturn * Second

\* every case testing the dwell of SCAN
Expired_ScanDwell(ms, t) == t > DwellScan * Second

\* if (stateTimer > dwell)
Expired(ms, t) == t > Dwell(ms)

\* case 'SCAN' assigning 'RETURN', leaving SAMPLE out
NextState_Skip(ms) ==
    CASE ms = "DRIVE_OUT" -> "SCAN"
      [] ms = "SCAN"      -> "RETURN"
      [] ms = "SAMPLE"    -> "RETURN"
      [] ms = "RETURN"    -> "DRIVE_OUT"

\* a wrap that leaves stateTimer running
WrapTimer_Keep(wrap, t) == t

\* stateTimer = 0 in the wrap ("Reset loop")
WrapTimer(wrap, t) == IF wrap THEN 0 ELSE t

\* the state each case of the switch assigns
NextState(ms) ==
    CASE ms = "DRIVE_OUT" -> "SCAN"
      [] ms = "SCAN"      -> "SAMPLE"
      [] ms = "SAMPLE"    -> "RETURN"
      [] ms = "RETURN"    -> "DRIVE_OUT"

\* a transition that leaves stateTimer running
TimerAfterSwitch_NoReset(ms, t) == t

\* a transition that carries the time beyond the dwell into the next phase
TimerAfterSwitch_Carry(ms, t) == IF Expired(ms, t) THEN t - Dwell(ms) ELSE t

\* stateTimer = 0 on a transition
TimerAfterSwitch(ms, t) == IF Expired(ms, t) THEN 0 ELSE t

\* the argument of setMissionPhase in each case of the switch
PhaseLabel(ms) ==
    CASE ms = "DRIVE_OUT" -> "TRAVERSING SECTOR 7"
      [] ms = "SCAN"      -> "ENVIRONMENTAL SCANNING"
      [] ms = "SAMPLE"    -> "SAMPLE ACQUISITION"
      [] ms = "RETURN"    -> "RESUMING TRAVERSE"

\* Math.atan2 with its arguments in the other order
TargetPitch_Swapped(field, x, z) ==
    Atan2(2400, getTerrainHeight(field, x + 12 * TimeScale, z)
                  - getTerrainHeight(field, x - 12 * TimeScale, z))

\* pitch = atan2(hFront - hBack, offset * 2), offset = 1.2
TargetPitch(field, x, z) ==
    Atan2(getTerrainHeight(field, x + 12 * TimeScale, z)
            - getTerrainHeight(field, x - 12 * TimeScale, z), 2400)

\* roll = atan2(hLeft - hRight, 1.6)
TargetRoll(field, x, z) ==
    Atan2(getTerrainHeight(field, x, z + 8 * TimeScale)
            - getTerrainHeight(field, x, z - 8 * TimeScale), 1600)

\* the 0.75 of the comment, without the 0.02 of tire compression
RootHeight_Uncompressed(field, x, z) ==
    getTerrainHeight(field, x, z) + ClearanceMm + 20

\* hCenter + 0.73
RootHeight(field, x, z) == getTerrainHeight(field, x, z) + ClearanceMm

\* roverPos.z + 0.8, the track of rockerL
LeftTrackZ(z) == z + 8 * TimeScale

\* the right rocker sampled on the left track
RightTrackZ_Left(z) == z + 8 * TimeScale

\* roverPos.z - 0.8, the track of rockerR
RightTrackZ(z) == z - 8 * TimeScale

\* rockerAngle = atan2(hF - hR, 2.0) on the track at lateral position zt
RockerAngle(field, x, zt) ==
    Atan2(getTerrainHeight(field, x + Metre, zt)
            - getTerrainHeight(field, x - Metre, zt), 2000)

\* (rockerAngle - rover.root.rotation.z) * 0.8
RockerRot(angle, pitch) == ((angle - pitch) * 8) \div 10

\* Math.sin(time * k), for time in time units
SinOfTime(k, tm) == Sin((1000 * k * tm) \div TimeScale)

\* a switch without joint assignments
JointsAfter_Frozen(ms, j, d, tm) == j

\* the rotations each case of the switch assigns to rover.arm and
\* rover.tail; lerp factors dt * 2 and, for the tail in SAMPLE, dt
JointsAfter(ms, j, d, tm) ==
    CASE ms = "DRIVE_OUT" ->
           [j EXCEPT !.armBase  = Lerp(@, 0, 2 * d),
                     !.shoulder = Lerp(@, -(PiMrad \div 2), 2 * d)]
      [] ms = "SCAN" ->
           [j EXCEPT !.tailBase = (SinOfTime(2, tm) * 8) \div 10,
                     !.tailMid  = (PiMrad \div 3) + (SinOfTime(3, tm) * 2) \div 10]
      [] ms = "SAMPLE" ->
           [j EXCEPT !.tailBase = Lerp(@, 0, d),
                     !.armBase  = Lerp(@, PiMrad \div 4, 2 * d),
                     !.shoulder = Lerp(@, 0, 2 * d),
                     !.elbow    = Lerp(@, -(PiMrad \div 2), 2 * d)]
      [] ms = "RETURN" -> j

(***************************************************************************)
(* One run of animate() on the closure's variables, with the clock running *)
(* or not and e the real time since the previous frame.                    *)
(***************************************************************************)
Animate(running, e) ==
    LET d      == GetDelta(running, e)
        tm     == time + d
        t1     == TimerAdvance(stateTimer, d)
        moving == IsMoving(missionState)
        x1     == IF moving THEN Advance(roverPos.x, d) ELSE roverPos.x
        wrap   == moving /\ Wraps(x1)
        x2     == IF wrap THEN WrapTarget(x1) ELSE x1
        ms1    == IF wrap THEN "DRIVE_OUT" ELSE missionState
        t2     == WrapTimer(wrap, t1)
        z      == roverPos.z
        pitch  == Lerp(rootRot.z, TargetPitch(terrain, x2, z),
                       OrientDamping * d)
    IN  /\ elapsed' = e
        /\ dt' = d
        /\ roverPos' = [x |-> x2, z |-> z]
        /\ rootPos' = [x |-> x2, y |-> RootHeight(terrain, x2, z), z |-> z]
        /\ rootRot' = [z |-> pitch,
                       x |-> Lerp(rootRot.x, -TargetRoll(terrain, x2, z),
                                  OrientDamping * d)]
        /\ rockerL' = RockerRot(RockerAngle(terrain, x2, LeftTrackZ(z)), pitch)
        /\ rockerR' = RockerRot(RockerAngle(terrain, x2, RightTrackZ(z)), pitch)
        /\ IF rigTracked
           THEN /\ time' = tm
                /\ joints' = JointsAfter(ms1, joints, d, tm)
           ELSE UNCHANGED <<time, joints>>
        /\ missionPhase' = PhaseLabel(ms1)
        /\ missionState' = IF Expired(ms1, t2) THEN NextState(ms1) ELSE ms1
        /\ stateTimer' = TimerAfterSwitch(ms1, t2)

(***************************************************************************)
(* The effect of Rover3DScene.                                             *)
(***************************************************************************)

\* the effect without its guard
SurfaceAvailable_Unchecked(ref) == TRUE

\* if (!mountRef.current) return;
SurfaceAvailable(ref) == ref

\* useEffect(() => { ... }, []): the guard, the scene and renderer set-up,
\* the first, synchronous call of animate(), the resize listener.
RunEffect ==
    /\ effect = "pending"
    /\ IF SurfaceAvailable(mountRef)
       THEN /\ effect' = "set_up"
            /\ domAttached' = TRUE
            /\ loading' = FALSE
            /\ Animate(FALSE, 0)
            /\ rafLoops' = rafLoops + 1
            /\ resizeListener' = TRUE
            /\ UNCHANGED <<mountRef, disposeCalls, cleanups, thrown, terrain,
                           rigTracked, chatVars>>
       ELSE /\ effect' = "skipped"
            /\ UNCHANGED <<mountRef, loading, resizeListener, domAttached,
                           disposeCalls, cleanups, thrown, rafLoops, terrain,
                           rigTracked, missionPhase, simVars, chatVars>>

\* A frame: the browser calls animate(), which registers itself again.
Tick(e) ==
    /\ rafLoops > 0
    /\ Animate(TRUE, e)
    /\ UNCHANGED <<lifeVars, chatVars>>

\* React detaches the ref when it removes the component's DOM node.
DetachRef ==
    /\ effect # "pending"
    /\ mountRef
    /\ mountRef' = FALSE
    /\ UNCHANGED <<effect, loading, resizeListener, domAttached, disposeCalls,
                   cleanups, thrown, rafLoops, terrain, rigTracked,
                   missionPhase, simVars, chatVars>>

\* The function the effect returns.  removeChild of a node that is not a
\* child raises NotFoundError, and the statements after it do not run.
Cleanup ==
    /\ effect = "set_up"
    /\ cleanups < MaxCleanups
    /\ cleanups' = cleanups + 1
    /\ resizeListener' = FALSE
    /\ IF mountRef /\ ~domAttached
       THEN /\ thrown' = TRUE
            /\ UNCHANGED <<domAttached, disposeCalls>>
       ELSE /\ domAttached' = (domAttached /\ ~mountRef)
            /\ disposeCalls' = disposeCalls + 1
            /\ UNCHANGED thrown
    /\ UNCHANGED <<mountRef, effect, loading, rafLoops, terrain, rigTracked,
                   missionPhase, simVars, chatVars>>

\* buildRover(): every rotation 0, except tailMid.rotation.z = Math.PI / 3
BuiltJoints ==
    [armBase |-> 0, shoulder |-> 0, elbow |-> 0, claw |-> 0,
     tailBase |-> 0, tailMid |-> PiMrad \div 3]

InitSim ==
    /\ missionState = "DRIVE_OUT"
    /\ stateTimer = 0
    /\ roverPos = [x |-> StartX * Metre, z |-> 0]
    /\ rootPos = [x |-> 0, y |-> 0, z |-> 0]
    /\ rootRot = [z |-> 0, x |-> 0]
    /\ rockerL = 0
    /\ rockerR = 0
    /\ joints = BuiltJoints
    /\ time = 0
    /\ elapsed = 0
    /\ dt = 0

InitLife ==
    /\ mountRef \in BOOLEAN
    /\ effect = "pending"
    /\ loading = TRUE
    /\ missionPhase = "INITIALIZING"
    /\ resizeListener = FALSE
    /\ domAttached = FALSE
    /\ disposeCalls = 0
    /\ cleanups = 0
    /\ thrown = FALSE
    /\ rafLoops = 0

\* the first entry of `messages`
Greeting == [role |-> "model", text |-> "SCORPION-AI Online."]

\* AIAssistant as first rendered, geminiService as loaded
InitChat ==
    /\ chatSession = FALSE
    /\ messages = <<Greeting>>
    /\ input = <<>>
    /\ isLoading = FALSE
    /\ calls = <<>>

\* The timer, the phase and the position never read the height field, the
\* joints or the clock time (lines 302-319 and 385-434); they are explored
\* on the constant field, on which rover.root.rotation stays within a
\* finite range for every dt, and with the joints and the clock time, which
\* grow without bound over a run, not followed.  SpecFrame follows them.
Init ==
    /\ InitLife /\ InitSim /\ terrain = "flat" /\ rigTracked = FALSE
    /\ InitChat /\ apiKey = TRUE

Next ==
    \/ RunEffect
    \/ \E e \in ElapsedSet : Tick(e)
    \/ DetachRef
    \/ Cleanup

Spec == Init /\ [][Next]_vars

(***************************************************************************)
(* The scenario of one-second frames: every frame arrives exactly one      *)
(* second after the previous one.                                          *)
(***************************************************************************)
NextOneSecond ==
    \/ RunEffect
    \/ Tick(Second)
    \/ DetachRef
    \/ Cleanup

SpecOneSecond == Init /\ [][NextOneSecond]_vars

(***************************************************************************)
(* One frame in full, on the field of the source and on its two one-sided  *)
(* variants: the state before the frame is drawn from states animate() can *)
(* leave behind, with the joints and the clock time followed, and one      *)
(* frame of positive duration runs (frames of duration 0 may precede it).  *)
(***************************************************************************)
Phases == {"DRIVE_OUT", "SCAN", "SAMPLE", "RETURN"}

FrameFields == {"mars", "marsLeftRidge", "marsRightRidge"}

FrameXs == {LowerBound * Metre, StartX * Metre, -7 * Metre, 13 * Metre,
            (UpperBound - 1) * Metre, UpperBound * Metre}

FramePitches == {-200, 0, 150}

FrameRolls == {0, 100}

FrameJoints ==
    { BuiltJoints,
      [BuiltJoints EXCEPT !.shoulder = -(PiMrad \div 2)],
      [armBase |-> 400, shoulder |-> -900, elbow |-> -700, claw |-> 0,
       tailBase |-> 600, tailMid |-> PiMrad \div 3] }

FrameTimes == {0, 3}

InitFrame ==
    /\ mountRef = TRUE
    /\ effect = "set_up"
    /\ loading = FALSE
    /\ resizeListener = TRUE
    /\ domAttached = TRUE
    /\ disposeCalls = 0
    /\ cleanups = 0
    /\ thrown = FALSE
    /\ rafLoops = 1
    /\ rigTracked = TRUE
    /\ terrain \in FrameFields
    /\ missionState \in Phases
    /\ stateTimer \in {0, Dwell(missionState)}
    /\ missionPhase = PhaseLabel(missionState)
    /\ roverPos \in [x : FrameXs, z : {0}]
    /\ rootPos = [x |-> roverPos.x,
                  y |-> RootHeight(terrain, roverPos.x, roverPos.z),
                  z |-> roverPos.z]
    /\ rootRot \in [z : FramePitches, x : FrameRolls]
    /\ rockerL = RockerRot(RockerAngle(terrain, roverPos.x,
                                       LeftTrackZ(roverPos.z)), rootRot.z)
    /\ rockerR = RockerRot(RockerAngle(terrain, roverPos.x,
                                       RightTrackZ(roverPos.z)), rootRot.z)
    /\ joints \in FrameJoints
    /\ time \in FrameTimes
    /\ elapsed = 0
    /\ dt = 0
    /\ InitChat /\ apiKey = TRUE

Frame(e) == dt = 0 /\ Tick(e)

NextFrame == \E e \in ElapsedSet : Frame(e)

SpecFrame == InitFrame /\ [][NextFrame]_vars

(***************************************************************************)
(* Frames that keep coming, each a positive time after the previous one,   *)
(* stalls longer than a whole lap of the track included.                   *)
(***************************************************************************)
LapStall == ((2 * UpperBound) \div DriveSpeed + 1) * Second

LiveElapsedSet == {1, Second, LapStall}

PositiveTick == \E e \in LiveElapsedSet : Tick(e)

NextLive ==
    \/ RunEffect
    \/ PositiveTick

SpecLive == Init /\ [][NextLive]_vars /\ WF_vars(PositiveTick)

(***************************************************************************)
(* The chat: AIAssistant and sendMessageToRoverAI.  A string the user      *)
(* types is a sequence of characters.                                      *)
(***************************************************************************)
Inputs == {<<>>, <<" ">>, <<" ", "a">>}

RECURSIVE TrimStart(_), TrimEnd(_)

TrimStart(s) == IF s # <<>> /\ Head(s) = " " THEN TrimStart(Tail(s)) ELSE s

TrimEnd(s) ==
    IF s # <<>> /\ s[Len(s)] = " "
    THEN TrimEnd(SubSeq(s, 1, Len(s) - 1))
    ELSE s

\* String.prototype.trim
Trim(s) == TrimEnd(TrimStart(s))

\* what chatSession.sendMessage does: it returns a response with a text,
\* with an empty text or with no text, or it throws
Outcomes == {"text", "empty", "undefined", "throw"}

ReplyText == "Rocker-bogie keeps six wheels on the ground."

\* response.text, a string or undefined
ResponseText(outcome) ==
    CASE outcome = "text"      -> [defined |-> TRUE, str |-> ReplyText]
      [] outcome = "empty"     -> [defined |-> TRUE, str |-> ""]
      [] outcome = "undefined" -> [defined |-> FALSE, str |-> ""]

\* the left operand of || is falsy: undefined or the empty string
Falsy(t) == ~t.defined \/ t.str = ""

Pending == [kind |-> "pending", value |-> ""]

InitErrorText == "System Error: AI Module not initialized (Missing API Key)."

PlaceholderText == "No data received."

CommErrorText == "Communication Error: Unable to reach central processing."

Fulfilled(v) == [kind |-> "fulfilled", value |-> v]

Rejected(v) == [kind |-> "rejected", value |-> v]

\* initGemini(): with the key it creates the session, without it it
\* returns with chatSession as it was
SessionAfterInit(key, session) == session \/ key

\* a request whose exception is not caught
SettledRequest_Uncaught(outcome) ==
    IF outcome = "throw"
    THEN Rejected("error")
    ELSE LET text == ResponseText(outcome)
         IN  Fulfilled(IF Falsy(text) THEN PlaceholderText ELSE text.str)

\* the try/catch of sendMessageToRoverAI once sendMessage has settled
SettledRequest(outcome) ==
    IF outcome = "throw"
    THEN Fulfilled(CommErrorText)
    ELSE LET text == ResponseText(outcome)
         IN  Fulfilled(IF Falsy(text) THEN PlaceholderText ELSE text.str)

\* handleSend(), up to its await: the early return on a blank input, the
\* user message, the cleared input, isLoading, and sendMessageToRoverAI up
\* to its own await (initGemini if there is no session, then the early
\* return or the request)
HandleSend ==
    IF Trim(input) = <<>>
    THEN UNCHANGED chatVars
    ELSE LET session == IF chatSession THEN chatSession
                        ELSE SessionAfterInit(apiKey, chatSession)
         IN  /\ Len(calls) < MaxSends
             /\ messages' = Append(messages, [role |-> "user", text |-> input])
             /\ input' = <<>>
             /\ isLoading' = TRUE
             /\ chatSession' = session
             /\ calls' = Append(calls,
                    IF session
                    THEN [text |-> input, sent |-> TRUE, stage |-> "request",
                          outcome |-> "none", result |-> Pending]
                    ELSE [text |-> input, sent |-> FALSE, stage |-> "settled",
                          outcome |-> "none",
                          result |-> Fulfilled(InitErrorText)])
             /\ UNCHANGED apiKey

\* No continuation of an await is ready to run.  A continuation is a
\* microtask: it runs before the browser delivers the next event.
NoContinuationReady == \A i \in DOMAIN calls : calls[i].stage # "settled"

\* onChange of the input field
TypeInput(s) ==
    /\ NoContinuationReady
    /\ input' = s
    /\ UNCHANGED <<apiKey, chatSession, messages, isLoading, calls>>
    /\ UNCHANGED <<lifeVars, missionPhase, simVars>>

\* onKeyDown with e.key === 'Enter'
PressEnter ==
    /\ NoContinuationReady
    /\ HandleSend
    /\ UNCHANGED <<lifeVars, missionPhase, simVars>>

\* onClick of the send button, which is disabled while isLoading or while
\* the input is blank
ClickSend ==
    /\ NoContinuationReady
    /\ ~(isLoading \/ Trim(input) = <<>>)
    /\ HandleSend
    /\ UNCHANGED <<lifeVars, missionPhase, simVars>>

\* chatSession.sendMessage of call i settles
RequestSettles(i, outcome) ==
    /\ NoContinuationReady
    /\ i \in DOMAIN calls
    /\ calls[i].stage = "request"
    /\ calls' = [calls EXCEPT ![i].stage = "settled",
                              ![i].outcome = outcome,
                              ![i].result = SettledRequest(outcome)]
    /\ UNCHANGED <<apiKey, chatSession, messages, input, isLoading>>
    /\ UNCHANGED <<lifeVars, missionPhase, simVars>>

\* handleSend() of call i after its await: the reply message, or the
\* catch, and the finally
ResumeSend(i) ==
    /\ i \in DOMAIN calls
    /\ calls[i].stage = "settled"
    /\ messages' = IF calls[i].result.kind = "fulfilled"
                   THEN Append(messages, [role |-> "model",
                                          text |-> calls[i].result.value])
                   ELSE messages
    /\ isLoading' = FALSE
    /\ calls' = [calls EXCEPT ![i].stage = "done"]
    /\ UNCHANGED <<apiKey, chatSession, input>>
    /\ UNCHANGED <<lifeVars, missionPhase, simVars>>

InitAssistant ==
    /\ InitLife /\ InitSim /\ terrain = "flat" /\ rigTracked = FALSE
    /\ InitChat /\ apiKey \in BOOLEAN

NextChat ==
    \/ \E s \in Inputs : TypeInput(s)
    \/ PressEnter
    \/ ClickSend
    \/ \E i \in 1..MaxSends, outcome \in Outcomes : RequestSettles(i, outcome)
    \/ \E i \in 1..MaxSends : ResumeSend(i)

SpecChat == InitAssistant /\ [][NextChat]_vars

(***************************************************************************)
(* Properties.                                                             *)
(***************************************************************************)
TickStep == \E e \in ElapsedSet : Tick(e)

CycleEdges ==
    { <<"DRIVE_OUT", "SCAN">>, <<"SCAN", "SAMPLE">>,
      <<"SAMPLE", "RETURN">>, <<"RETURN", "DRIVE_OUT">> }

\* C1: the mission starts in TRAVERSE (DRIVE_OUT), and every change of
\* missionState is one of TRAVERSE -> SCAN, SCAN -> SAMPLE,
\* SAMPLE -> RETURN, RETURN -> TRAVERSE.
C1_PhaseCycle ==
    /\ missionState = "DRIVE_OUT"
    /\ [][missionState' # missionState
            => <<missionState, missionState'>> \in CycleEdges]_vars

\* RETURN has just been left on its timer: the label of RETURN is still
\* published and the state is DRIVE_OUT again.
C1_Witness ==
    /\ missionState = "DRIVE_OUT"
    /\ missionPhase = "RESUMING TRAVERSE"
    /\ stateTimer = 0

C4_ScanAtSixthTick ==
    [][(terrain = "flat" /\ missionState = "DRIVE_OUT"
          /\ stateTimer = (DwellDriveOut - 1) * Second
          /\ stateTimer' # stateTimer)
         => /\ missionState' = "SCAN"
            /\ rootRot' = [z |-> 0, x |-> 0]]_vars

\* C5 as stated: once the cleanup has run, no tick is executed.
C5_NoTickAfterTeardown ==
    [][cleanups > 0 => ~TickStep]_vars

\* C6 as stated: a second call of the cleanup raises nothing and releases
\* nothing again.
C6_TeardownIdempotent ==
    [][(cleanups >= 1 /\ cleanups' = cleanups + 1)
         => /\ ~thrown'
            /\ disposeCalls' = disposeCalls
            /\ domAttached' = domAttached
            /\ resizeListener' = resizeListener]_vars

\* C7 as stated: the dt of a tick is never negative and never above a
\* fixed maximum, so a long stall is cut down to less than its length.
C7_DtClamped ==
    dt >= 0 /\ dt < LongStall

\* C8: a tick whose advance takes the position above 60 ends with the
\* position at exactly -60, the pose is placed there, and no tick ends
\* with the position above 60.
C8_WrapToLowerBound ==
    /\ [](roverPos.x <= UpperBound * Metre)
    /\ [][(TickStep /\ IsMoving(missionState)
             /\ roverPos.x + 10 * DriveSpeed * dt' > UpperBound * Metre)
            => /\ roverPos'.x = LowerBound * Metre
               /\ rootPos'.x = LowerBound * Metre]_vars

\* The position has just wrapped.
C8_Witness ==
    /\ roverPos.x = LowerBound * Metre
    /\ rootPos.x = LowerBound * Metre
    /\ missionState = "DRIVE_OUT"
    /\ stateTimer = 0
    /\ dt > 0

\* C9: -60 <= x <= 60 and z = 0 in every state.
C9_PositionBounds ==
    /\ roverPos.x >= LowerBound * Metre
    /\ roverPos.x <= UpperBound * Metre
    /\ roverPos.z = 0

\* A tick has ended with the position exactly on the upper bound.
C9_Witness ==
    /\ roverPos.x = UpperBound * Metre
    /\ rootPos.x = UpperBound * Metre

\* C10: the effect run with no mount surface creates no renderer, no
\* listener and no tick loop, raises nothing and leaves the label at
\* INITIALIZING.
C10_NoSurfaceNoOp ==
    [][(effect = "pending" /\ effect' # "pending" /\ ~mountRef)
         => /\ effect' = "skipped"
            /\ ~domAttached' /\ ~resizeListener' /\ rafLoops' = 0
            /\ ~thrown'
            /\ missionPhase' = "INITIALIZING"
            /\ UNCHANGED <<loading, simVars>>]_vars

\* The effect has returned at its guard.
C10_Witness ==
    /\ effect = "skipped"
    /\ ~mountRef
    /\ rafLoops = 0
    /\ missionPhase = "INITIALIZING"

\* C11: every tick ends with rover.root.position at the position the tick
\* arrived at (after the advance and the wrap) and at the height of the
\* terrain there plus 0.73, whatever the height was before.
C11_RootHeightOnTerrain ==
    [][TickStep
         => rootPos' = [x |-> roverPos'.x,
                        y |-> getTerrainHeight(terrain, roverPos'.x,
                                               roverPos'.z) + ClearanceMm,
                        z |-> roverPos'.z]]_vars

\* A tick on the field of the source has wrapped and placed the root at
\* the height of the terrain at -60.
C11_Witness ==
    /\ terrain = "mars"
    /\ dt > 0
    /\ missionState = "DRIVE_OUT" /\ stateTimer = 0
    /\ roverPos.x = LowerBound * Metre
    /\ rootPos.y = getTerrainHeight("mars", LowerBound * Metre, 0) + ClearanceMm
    /\ rootPos.y # ClearanceMm

\* C12: on the constant field pitch, roll and both rocker angles are 0 in
\* every state, for every sequence of tick durations.
C12_FlatStaysLevel ==
    terrain = "flat"
        => rootRot = [z |-> 0, x |-> 0] /\ rockerL = 0 /\ rockerR = 0

\* A long stall on the constant field has left the rover level.
C12_Witness ==
    /\ terrain = "flat"
    /\ dt = LongStall
    /\ rootRot = [z |-> 0, x |-> 0] /\ rockerL = 0 /\ rockerR = 0

\* C13: a ridge added on the left side only (z > 0) leaves the right
\* rocker angle of every tick what it is on the field without the ridge,
\* and a ridge on the right side only leaves the left rocker angle so.
C13_RockersIndependent ==
    [][TickStep =>
         LET x  == roverPos'.x
             z  == roverPos'.z
             p  == Lerp(rootRot.z,
                        Atan2(getTerrainHeight("mars", x + 12 * TimeScale, z)
                                - getTerrainHeight("mars", x - 12 * TimeScale, z),
                              2400),
                        OrientDamping * dt')
             onMars(zt) ==
                 ((Atan2(getTerrainHeight("mars", x + Metre, zt)
                           - getTerrainHeight("mars", x - Metre, zt), 2000)
                     - p) * 8) \div 10
         IN  /\ terrain = "marsLeftRidge"  => rockerR' = onMars(z - 8 * TimeScale)
             /\ terrain = "marsRightRidge" => rockerL' = onMars(z + 8 * TimeScale)]_vars

\* A tick on the field with the left ridge: the ridge has changed the left
\* rocker angle.
C13_Witness ==
    /\ terrain = "marsLeftRidge"
    /\ dt > 0
    /\ rockerL # RockerRot(RockerAngle("mars", roverPos.x,
                                       LeftTrackZ(roverPos.z)), rootRot.z)

\* C14 as stated: on every TRAVERSE tick with dt > 0 the distance between
\* the shoulder angle and the stowed angle -pi/2 strictly shrinks.
C14_ShoulderApproachesStow ==
    [][(TickStep /\ missionState = "DRIVE_OUT" /\ dt' > 0
          /\ joints.shoulder # -(PiMrad \div 2))
         => Abs(joints'.shoulder + (PiMrad \div 2))
              < Abs(joints.shoulder + (PiMrad \div 2))]_vars

Between(a, b, c) == (a <= b /\ b <= c) \/ (c <= b /\ b <= a)

\* C15 as stated: after every tick the smoothed pitch lies between its
\* value before the tick and the tick's target, and so does the roll.
C15_PoseNoOvershoot ==
    [][TickStep
         => /\ Between(rootRot.z, rootRot'.z,
                       TargetPitch(terrain, roverPos'.x, roverPos'.z))
            /\ Between(rootRot.x, rootRot'.x,
                       -TargetRoll(terrain, roverPos'.x, roverPos'.z))]_vars

\* C16 as stated: after every SAMPLE tick each eased joint lies between
\* its value before the tick and its target.
C16_JointsNoOvershoot ==
    [][(TickStep /\ missionState = "SAMPLE")
         => /\ Between(joints.tailBase, joints'.tailBase, 0)
            /\ Between(joints.armBase, joints'.armBase, PiMrad \div 4)
            /\ Between(joints.shoulder, joints'.shoulder, 0)
            /\ Between(joints.elbow, joints'.elbow, -(PiMrad \div 2))]_vars

GridXs == {5 * k * Metre : k \in -16..16}

GridZs == {z * Metre : z \in {-80, -5, -4, -1, 0, 1, 4, 5, 80}}

RawHeights == {-6000, -5001, -5000, -4999, 0, 2700}

GridHeights ==
    {<<x, z, getTerrainHeight("mars", x, z)>> : x \in GridXs, z \in GridZs}

C18_EveryPhaseRecurs ==
    /\ [](rafLoops > 0 => <>(missionState = "DRIVE_OUT"))
    /\ [](rafLoops > 0 => <>(missionState = "SCAN"))
    /\ [](rafLoops > 0 => <>(missionState = "SAMPLE"))
    /\ [](rafLoops > 0 => <>(missionState = "RETURN"))

C20_AdvanceGatedByStartPhase ==
    [][TickStep
         => IF missionState \in {"DRIVE_OUT", "RETURN"}
            THEN \/ roverPos'.x = roverPos.x + 10 * DriveSpeed * dt'
                 \/ /\ roverPos.x + 10 * DriveSpeed * dt' > UpperBound * Metre
                    /\ roverPos'.x = LowerBound * Metre
            ELSE roverPos'.x = roverPos.x]_vars

\* The first TRAVERSE has been left by a tick of half a second that began
\* with the timer at the dwell: the position has advanced through all of
\* it, that tick included.
C20_Witness ==
    /\ missionState = "SCAN"
    /\ stateTimer = 0
    /\ dt = 1
    /\ roverPos.x = StartX * Metre
                      + 10 * DriveSpeed * (DwellDriveOut * Second + 1)

\* C21 as stated: in every tick the rocker angles are computed from the
\* tick's new position and new smoothed pitch, and the joints are eased
\* as the phase held after the tick's transition check prescribes.
C21_PoseThenRockersPhaseThenEasing ==
    [][TickStep
         => /\ rockerL' = RockerRot(RockerAngle(terrain, roverPos'.x,
                                                LeftTrackZ(roverPos'.z)),
                                    rootRot'.z)
            /\ rockerR' = RockerRot(RockerAngle(terrain, roverPos'.x,
                                                RightTrackZ(roverPos'.z)),
                                    rootRot'.z)
            /\ joints' = JointsAfter(missionState', joints, dt', time')]_vars

\* b is at the target if a is, and nearer to it than a otherwise
Closer(a, b, target) ==
    IF a = target THEN b = target ELSE Abs(b - target) < Abs(a - target)

\* C22 as stated: every TRAVERSE tick with 0 < dt <= 0.5 (lerp factor at
\* most 1) moves the arm base toward 0, the shoulder toward -pi/2, the
\* mast base toward 0 and the mast mid-joint toward pi/3.
C22_TraverseStowsArmAndMast ==
    [][(TickStep /\ missionState = "DRIVE_OUT"
          /\ dt' > 0 /\ 2 * dt' <= TimeScale)
         => /\ Closer(joints.armBase, joints'.armBase, 0)
            /\ Closer(joints.shoulder, joints'.shoulder, -(PiMrad \div 2))
            /\ Closer(joints.tailBase, joints'.tailBase, 0)
            /\ Closer(joints.tailMid, joints'.tailMid, PiMrad \div 3)]_vars

\* C23 as stated: every RETURN tick with 0 < dt <= 0.5 moves each joint
\* toward the target SAMPLE set for it.
C23_ReturnKeepsEasing ==
    [][(TickStep /\ missionState = "RETURN"
          /\ dt' > 0 /\ 2 * dt' <= TimeScale)
         => /\ Closer(joints.tailBase, joints'.tailBase, 0)
            /\ Closer(joints.armBase, joints'.armBase, PiMrad \div 4)
            /\ Closer(joints.shoulder, joints'.shoulder, 0)
            /\ Closer(joints.elbow, joints'.elbow, -(PiMrad \div 2))]_vars

\* C24: every tick that starts in SAMPLE sets the mast base to
\* lerp(., 0, dt), the arm base to lerp(., pi/4, dt * 2), the shoulder to
\* lerp(., 0, dt * 2) and the elbow to lerp(., -pi/2, dt * 2), and leaves
\* the mast mid-joint and the claw as they were.
C24_SampleEasesFourJoints ==
    [][(TickStep /\ missionState = "SAMPLE")
         => joints' = [tailBase |-> Lerp(joints.tailBase, 0, dt'),
                       armBase  |-> Lerp(joints.armBase, PiMrad \div 4, 2 * dt'),
                       shoulder |-> Lerp(joints.shoulder, 0, 2 * dt'),
                       elbow    |-> Lerp(joints.elbow, -(PiMrad \div 2), 2 * dt'),
                       tailMid  |-> joints.tailMid,
                       claw     |-> joints.claw]]_vars

\* A SAMPLE tick of half a second from the rover as built: the arm is at
\* its SAMPLE targets, the mast mid-joint and the claw are as built.
C24_Witness ==
    /\ missionState = "SAMPLE"
    /\ dt = 1
    /\ stateTimer = 1
    /\ joints.armBase = Lerp(0, PiMrad \div 4, 2)
    /\ joints.elbow = Lerp(0, -(PiMrad \div 2), 2)
    /\ joints.armBase # 0
    /\ joints.tailMid = PiMrad \div 3
    /\ joints.claw = 0

\* C25 as stated: once the simulation runs, the published label is the
\* label of the phase held at the end of the last tick.
C25_LabelNamesActivePhase ==
    effect = "set_up" => missionPhase = PhaseLabel(missionState)

\* C26: a tick whose advance takes the position above 60 ends in TRAVERSE
\* with the timer at 0, whatever the phase and the timer were.
C26_WrapRestartsTraverse ==
    [][(TickStep /\ missionState \in {"DRIVE_OUT", "RETURN"}
          /\ roverPos.x + 10 * DriveSpeed * dt' > UpperBound * Metre)
         => missionState' = "DRIVE_OUT" /\ stateTimer' = 0]_vars

\* A tick of half a second has wrapped the position.
C26_Witness ==
    /\ missionState = "DRIVE_OUT"
    /\ stateTimer = 0
    /\ roverPos.x = LowerBound * Metre
    /\ dt = 1

\* the phase that follows ph in the cycle
Successor(ph) ==
    CASE ph = "DRIVE_OUT" -> "SCAN"
      [] ph = "SCAN"      -> "SAMPLE"
      [] ph = "SAMPLE"    -> "RETURN"
      [] ph = "RETURN"    -> "DRIVE_OUT"

\* C27: a tick changes the phase by at most one step of the cycle and a
\* tick that changes it ends with the timer at 0; a tick whose dt is
\* longer than every dwell ends one step on (or in TRAVERSE, by the wrap)
\* with the timer at 0, not two steps on and not with the excess time.
C27_OneStepPerTick ==
    [][TickStep
         => /\ missionState' \in {missionState, Successor(missionState)}
            /\ missionState' # missionState => stateTimer' = 0
            /\ dt' >= LongStall
                 => /\ stateTimer' = 0
                    /\ \/ missionState' = Successor(missionState)
                       \/ /\ missionState = "DRIVE_OUT"
                          /\ missionState' = "DRIVE_OUT"
                          /\ roverPos'.x = LowerBound * Metre]_vars

\* A long stall of 7 that began in SCAN has ended in SAMPLE, one step on,
\* with the timer at 0: the time beyond the dwell 3 of SCAN is discarded.
C27_Witness ==
    /\ missionState = "SAMPLE"
    /\ stateTimer = 0
    /\ dt = LongStall
    /\ missionPhase = "ENVIRONMENTAL SCANNING"
    /\ elapsed = LongStall

C29_ServiceNeverRejects ==
    \A i \in DOMAIN calls :
        LET c == calls[i]
        IN  /\ c.sent = apiKey
            /\ c.stage \in {"settled", "done"}
                 => /\ c.result.kind = "fulfilled"
                    /\ c.result.value \in {InitErrorText, CommErrorText,
                                           PlaceholderText, ReplyText}
                    /\ c.result.value = InitErrorText <=> ~c.sent
                    /\ c.result.value = CommErrorText <=> c.outcome = "throw"
                    /\ c.result.value = PlaceholderText
                         <=> c.outcome \in {"empty", "undefined"}
                    /\ c.result.value = ReplyText <=> c.outcome = "text"

\* Three calls have settled: one request threw, one reply had no text and
\* one had a text; the chat shows the three strings.
C29_Witness ==
    /\ Len(calls) = 3
    /\ Len(messages) = 7
    /\ \A i \in 1..3 : calls[i].stage = "done"
    /\ {calls[i].outcome : i \in 1..3} = {"throw", "undefined", "text"}
    /\ {messages[k].text :
           k \in {j \in DOMAIN messages : messages[j].role = "model"}}
         = {Greeting.text, CommErrorText, PlaceholderText, ReplyText}

\* C30 as stated: at most one call of handleSend is awaiting its reply,
\* no send starts while isLoading is true, and isLoading is true while a
\* send has not settled.
C30_OneRequestInFlight ==
    /\ Cardinality({i \in DOMAIN calls : calls[i].stage # "done"}) <= 1
    /\ (\E i \in DOMAIN calls : calls[i].stage # "done") => isLoading

====
